---- MODULE Spec2Model ----
(***************************************************************************)
(* A model of toyforth (src/src/main.rs): the VM struct with its two        *)
(* stacks, instruction memory and dictionary, the token compiler            *)
(* (compile_line / compile_token / token_to_instruction_seq), the           *)
(* interpreter loop (run / exec_ins) and the read-compile-run loop of main. *)
(*                                                                          *)
(* A line is read token by token: ReadLine fixes how many tokens the line   *)
(* holds and CompileToken draws each token when compile_line reaches it     *)
(* (compile_line never looks ahead of the token it splits off).             *)
(* usize is modelled at WordBits bits.  An arithmetic overflow panics in a  *)
(* build with overflow checks and wraps in one without: both outcomes are   *)
(* kept.  A panic (overflow, division by zero, the unwrap of an             *)
(* out-of-range fetch) ends the process: pc = "panic".                      *)
(*                                                                          *)
(* Three specifications share the actions: Spec is main from VM::new,       *)
(* SpecDefined is main after a first line that defines a word, and SpecRun  *)
(* is one call of run on any small data stack and output sequence.          *)
(***************************************************************************)
EXTENDS Integers, Sequences, FiniteSets, TLC

VARIABLES
    data_stack,           \* VM.data_stack
    call_stack,           \* VM.call_stack
    instruction_memory,   \* VM.instruction_memory
    instruction_pointer,  \* VM.instruction_pointer
    compile_mode,         \* VM.compile_mode
    words,                \* VM.words
    in_comment,           \* VM.in_comment
    ins_seq,              \* main's ins_seq
    old_imem_len,         \* run's old_imem_len
    pc,                   \* where the process is: "read", "compile", "run", "panic"
    token,                \* the token compile_token was called with last
    remaining,            \* how many tokens of the current line are still unread
    ntokens,              \* how many tokens the session has read
    status,               \* what main printed last for a line
    output,               \* the numbers printed by PRINT since the line was read
    at_run                \* the VM as it was when the current run was entered

vars == <<data_stack, call_stack, instruction_memory, instruction_pointer,
          compile_mode, words, in_comment, ins_seq, old_imem_len, pc, token,
          remaining, ntokens, status, output, at_run>>

----------------------------------------------------------------------------
(* Bounds of the model *)

\* usize is WordBits bits wide
WordBits == 3
\* the session reads at most MaxTokens tokens
MaxTokens == 4
\* a session that starts with a definition line reads at most MaxCallTokens
\* tokens after it
MaxCallTokens == 3
\* the stacks and the printed output stay within these lengths
MaxStack == 3
MaxCall == 2
MaxOut == 2
\* run is called with at most MaxSeq instructions
MaxSeq == 2

Modulus == 2 ^ WordBits

----------------------------------------------------------------------------
(* CompiledInstruction *)

Ins(op) == [op |-> op, n |-> 0]

IMM(n) == [op |-> "IMM", n |-> n]

Word(name, iseq) == [name |-> name, inline_iseq |-> iseq]

\* VM::new: the built-in dictionary
Builtins ==
    << Word("DUP", <<Ins("DUP")>>),
       Word("DROP", <<Ins("DROP")>>),
       Word("SWAP", <<Ins("SWAP")>>),
       Word("+", <<Ins("ADD")>>),
       Word("-", <<Ins("SUB")>>),
       Word("*", <<Ins("MUL")>>),
       Word("/", <<Ins("DIV")>>),
       Word("CALL", <<Ins("CALL")>>),
       Word("JUMP", <<Ins("JUMP")>>),
       Word(";", <<Ins("RET")>>),
       Word(".", <<Ins("PRINT")>>) >>

\* The tokens a line is drawn from: the built-in names, the tokens of the
\* compiler, two numerals, a name that is free at the start and a token that
\* is neither a word nor a numeral
Tokens ==
    {"DUP", "DROP", "SWAP", "+", "-", "*", "/", "CALL", "JUMP", ";", ".",
     ":", "(", ")", "0", "2", "W", "abc"}

\* The decimal numerals among the tokens, with their values
Numerals ==
    ("0" :> 0) @@ ("1" :> 1) @@ ("2" :> 2) @@ ("3" :> 3) @@ ("4" :> 4) @@
    ("5" :> 5) @@ ("9" :> 9) @@ ("10" :> 10) @@ ("25" :> 25)

----------------------------------------------------------------------------
(* Dictionary and token resolution *)

RECURSIVE find_from(_, _, _)
find_from(ws, tok, i) ==
    IF i > Len(ws) THEN 0
    ELSE IF ws[i].name = tok THEN i
    ELSE find_from(ws, tok, i + 1)

\* lookup that scans from the back: the index of the last entry named tok
lookup_word_last(ws, tok) ==
    LET hits == {i \in 1 .. Len(ws) : ws[i].name = tok} IN
    IF hits = {} THEN 0 ELSE CHOOSE i \in hits : \A j \in hits : j <= i

\* VM::lookup_word: the index of the first entry named tok; 0 for None
lookup_word(ws, tok) == find_from(ws, tok, 1)

\* usize::from_str
usize_from_str(tok) ==
    IF tok \in DOMAIN Numerals /\ Numerals[tok] < Modulus
    THEN [ok |-> TRUE, num |-> Numerals[tok]]
    ELSE [ok |-> FALSE, num |-> 0]

\* VM::token_to_instruction_seq
token_to_instruction_seq(ws, tok) ==
    LET i == lookup_word(ws, tok) IN
    IF i = 0
    THEN LET p == usize_from_str(tok) IN
         IF p.ok THEN [ok |-> TRUE, iseq |-> <<IMM(p.num)>>]
         ELSE [ok |-> FALSE, iseq |-> <<>>]
    ELSE [ok |-> TRUE, iseq |-> ws[i].inline_iseq]

\* VM::in_compile_mode
in_compile_mode(mode) ==
    CASE mode = "TopLevel" -> FALSE
      [] mode = "Definition" -> TRUE
      [] mode = "DefinitionBody" -> TRUE

----------------------------------------------------------------------------
(* exec_ins *)

\* pop that yields 0 from an empty stack
pop_data_stack_zero(ds) ==
    IF ds = <<>> THEN [ok |-> TRUE, n |-> 0, stack |-> ds]
    ELSE [ok |-> TRUE, n |-> ds[Len(ds)], stack |-> SubSeq(ds, 1, Len(ds) - 1)]

\* VM::pop_data_stack
pop_data_stack(ds) ==
    IF ds = <<>> THEN [ok |-> FALSE, n |-> 0, stack |-> ds]
    ELSE [ok |-> TRUE, n |-> ds[Len(ds)], stack |-> SubSeq(ds, 1, Len(ds) - 1)]

\* VM::pop_call_stack
pop_call_stack(cs) ==
    IF cs = <<>> THEN [ok |-> FALSE, n |-> 0, stack |-> cs]
    ELSE [ok |-> TRUE, n |-> cs[Len(cs)], stack |-> SubSeq(cs, 1, Len(cs) - 1)]

Outcome(res, ds, cs, ip, out) ==
    [res |-> res, ds |-> ds, cs |-> cs, ip |-> ip, out |-> out]

\* arithmetic that takes the top of the stack as the left operand
arith_rev(op, a, b) ==
    LET exact == CASE op = "ADD" -> b + a
                   [] op = "SUB" -> b - a
                   [] op = "MUL" -> b * a
                   [] op = "DIV" -> IF a = 0 THEN 0 ELSE b \div a
    IN IF op = "DIV" /\ a = 0 THEN {[panic |-> TRUE, val |-> 0]}
       ELSE IF exact \in 0 .. Modulus - 1 THEN {[panic |-> FALSE, val |-> exact]}
       ELSE {[panic |-> TRUE, val |-> 0], [panic |-> FALSE, val |-> exact % Modulus]}

\* a + b, a - b, a * b, a / b on usize: the results the build can produce;
\* panic is the panic of a checked overflow or of a division by zero, and an
\* unchecked overflow wraps
arith(op, a, b) ==
    LET exact == CASE op = "ADD" -> a + b
                   [] op = "SUB" -> a - b
                   [] op = "MUL" -> a * b
                   [] op = "DIV" -> IF b = 0 THEN 0 ELSE a \div b
    IN IF op = "DIV" /\ b = 0 THEN {[panic |-> TRUE, val |-> 0]}
       ELSE IF exact \in 0 .. Modulus - 1 THEN {[panic |-> FALSE, val |-> exact]}
       ELSE {[panic |-> TRUE, val |-> 0], [panic |-> FALSE, val |-> exact % Modulus]}

\* call that pops the callee address before it pushes the return address
exec_call_pop_first(ds, cs, ip) ==
    LET p == pop_data_stack(ds) IN
    IF ~p.ok THEN {Outcome("err", p.stack, cs, ip, <<>>)}
    ELSE {Outcome("ok", p.stack, Append(cs, ip), p.n, <<>>)}

\* call that records the address after the next instruction
exec_call_off(ds, cs, ip) ==
    LET p == pop_data_stack(ds) IN
    IF ~p.ok THEN {Outcome("err", p.stack, Append(cs, ip + 1), ip, <<>>)}
    ELSE {Outcome("ok", p.stack, Append(cs, ip + 1), p.n, <<>>)}

\* exec_ins, CALL: push the instruction pointer, then pop the callee address
exec_call(ds, cs, ip) ==
    LET p == pop_data_stack(ds) IN
    IF ~p.ok THEN {Outcome("err", p.stack, Append(cs, ip), ip, <<>>)}
    ELSE {Outcome("ok", p.stack, Append(cs, ip), p.n, <<>>)}

\* return that also leaves the return address on the data stack
exec_ret_leak(ds, cs, ip) ==
    LET r == pop_call_stack(cs) IN
    IF ~r.ok THEN {Outcome("err", ds, r.stack, ip, <<>>)}
    ELSE {Outcome("ok", Append(ds, r.n), r.stack, r.n, <<>>)}

\* exec_ins, RET: pop the call stack into the instruction pointer
exec_ret(ds, cs, ip) ==
    LET r == pop_call_stack(cs) IN
    IF ~r.ok THEN {Outcome("err", ds, r.stack, ip, <<>>)}
    ELSE {Outcome("ok", ds, r.stack, r.n, <<>>)}

\* DUP that pushes the element back once
exec_dup_once(stack, tos) == Append(stack, tos)

\* exec_ins, DUP: the two pushes after the pop
exec_dup(stack, tos) == Append(Append(stack, tos), tos)

\* VM::exec_ins: the outcomes of executing ins
exec_ins(ins, ds, cs, ip) ==
    LET p1 == pop_data_stack(ds)
        p2 == pop_data_stack(p1.stack)
    IN
    CASE ins.op = "NOP" -> {Outcome("ok", ds, cs, ip, <<>>)}
      [] ins.op = "DUP" ->
           IF ~p1.ok THEN {Outcome("err", p1.stack, cs, ip, <<>>)}
           ELSE {Outcome("ok", exec_dup(p1.stack, p1.n), cs, ip, <<>>)}
      [] ins.op = "DROP" ->
           IF ~p1.ok THEN {Outcome("err", p1.stack, cs, ip, <<>>)}
           ELSE {Outcome("ok", p1.stack, cs, ip, <<>>)}
      [] ins.op = "SWAP" ->
           IF ~p1.ok THEN {Outcome("err", p1.stack, cs, ip, <<>>)}
           ELSE IF ~p2.ok THEN {Outcome("err", p2.stack, cs, ip, <<>>)}
           ELSE {Outcome("ok", Append(Append(p2.stack, p1.n), p2.n), cs, ip, <<>>)}
      [] ins.op \in {"ADD", "SUB", "MUL", "DIV"} ->
           IF ~p1.ok THEN {Outcome("err", p1.stack, cs, ip, <<>>)}
           ELSE IF ~p2.ok THEN {Outcome("err", p2.stack, cs, ip, <<>>)}
           ELSE { IF v.panic
                  THEN Outcome("panic", p2.stack, cs, ip, <<>>)
                  ELSE Outcome("ok", Append(p2.stack, v.val), cs, ip, <<>>)
                  : v \in arith(ins.op, p2.n, p1.n) }
      [] ins.op = "IMM" -> {Outcome("ok", Append(ds, ins.n), cs, ip, <<>>)}
      [] ins.op = "CALL" -> exec_call(ds, cs, ip)
      [] ins.op = "JUMP" ->
           IF ~p1.ok THEN {Outcome("err", p1.stack, cs, ip, <<>>)}
           ELSE {Outcome("ok", p1.stack, cs, p1.n, <<>>)}
      [] ins.op = "RET" -> exec_ret(ds, cs, ip)
      [] ins.op = "PRINT" ->
           IF ~p1.ok THEN {Outcome("err", p1.stack, cs, ip, <<>>)}
           ELSE {Outcome("ok", p1.stack, cs, ip, <<p1.n>>)}

----------------------------------------------------------------------------
(* compile_token and compile_line *)

\* What compile_token reads and writes: the compiler's fields of the VM and
\* the caller's ins_seq; err is the Err it returned, <<>> for Ok
Compiler(mode, ws, comment, imem, iseq, err) ==
    [compile_mode |-> mode, words |-> ws, in_comment |-> comment,
     instruction_memory |-> imem, ins_seq |-> iseq, err |-> err]

InvalidToken(tok) == <<"InvalidToken", tok>>

\* comment check that consumes only the two delimiters
in_comment_skips_delimiters(comment, tok) ==
    (comment /\ tok = ")") \/ (~comment /\ tok = "(")

\* compile_token, the comment check: whether the token is consumed by it
in_comment_skips(comment, tok) == comment \/ tok = "("

\* compile_token, the comment check: the comment flag it leaves
in_comment_after(comment, tok) == IF comment THEN tok # ")" ELSE tok = "("

\* entry body that bakes in the address one past the end
definition_iseq_off(imem) == <<IMM(Len(imem) + 1), Ins("CALL")>>

\* compile_token, Definition: the body of the new dictionary entry
definition_iseq(imem) == <<IMM(Len(imem)), Ins("CALL")>>

\* definition body that ";" does not end
body_mode_stays(tok) == "DefinitionBody"

\* compile_token, DefinitionBody: the mode after a resolved token
body_mode_after(tok) == IF tok = ";" THEN "TopLevel" ELSE "DefinitionBody"

\* match on the compile mode that sends the instructions of a body token to
\* the output sequence
compile_in_mode_transient(c, tok) ==
    CASE c.compile_mode = "TopLevel" ->
           IF tok = ":"
           THEN [c EXCEPT !.compile_mode = "Definition"]
           ELSE LET r == token_to_instruction_seq(c.words, tok) IN
                IF r.ok
                THEN [c EXCEPT !.ins_seq = c.ins_seq \o r.iseq]
                ELSE [c EXCEPT !.err = InvalidToken(tok)]
      [] c.compile_mode = "Definition" ->
           [c EXCEPT !.words = Append(c.words,
                                 Word(tok, definition_iseq(c.instruction_memory))),
                     !.compile_mode = "DefinitionBody"]
      [] c.compile_mode = "DefinitionBody" ->
           LET r == token_to_instruction_seq(c.words, tok) IN
           IF r.ok
           THEN [c EXCEPT !.ins_seq = c.ins_seq \o r.iseq,
                          !.compile_mode = body_mode_after(tok)]
           ELSE [c EXCEPT !.err = InvalidToken(tok)]

\* compile_token, the match on the compile mode
compile_in_mode(c, tok) ==
    CASE c.compile_mode = "TopLevel" ->
           IF tok = ":"
           THEN [c EXCEPT !.compile_mode = "Definition"]
           ELSE LET r == token_to_instruction_seq(c.words, tok) IN
                IF r.ok
                THEN [c EXCEPT !.ins_seq = c.ins_seq \o r.iseq]
                ELSE [c EXCEPT !.err = InvalidToken(tok)]
      [] c.compile_mode = "Definition" ->
           [c EXCEPT !.words = Append(c.words,
                                 Word(tok, definition_iseq(c.instruction_memory))),
                     !.compile_mode = "DefinitionBody"]
      [] c.compile_mode = "DefinitionBody" ->
           LET r == token_to_instruction_seq(c.words, tok) IN
           IF r.ok
           THEN [c EXCEPT !.instruction_memory = c.instruction_memory \o r.iseq,
                          !.compile_mode = body_mode_after(tok)]
           ELSE [c EXCEPT !.err = InvalidToken(tok)]

\* compile_token that gives up the open definition and the line's output
\* sequence when a token fails
compile_token_rollback(c, tok) ==
    IF in_comment_skips(c.in_comment, tok)
    THEN [c EXCEPT !.in_comment = in_comment_after(c.in_comment, tok)]
    ELSE LET r == compile_in_mode(c, tok) IN
         IF r.err = <<>> THEN r
         ELSE [r EXCEPT !.compile_mode = "TopLevel", !.ins_seq = <<>>]

\* VM::compile_token
compile_token(c, tok) ==
    IF in_comment_skips(c.in_comment, tok)
    THEN [c EXCEPT !.in_comment = in_comment_after(c.in_comment, tok)]
    ELSE compile_in_mode(c, tok)

\* compile_line that drops the Err of compile_token
returns_never(err) == FALSE

\* compile_line, the ? after compile_token: whether compile_line returns
returns_err(err) == err # <<>>

\* VM::compile_line on a line given as its tokens: the first Err returns
RECURSIVE compile_line(_, _)
compile_line(c, tokens) ==
    IF tokens = <<>> THEN c
    ELSE LET c1 == compile_token(c, Head(tokens)) IN
         IF returns_err(c1.err) THEN c1 ELSE compile_line(c1, Tail(tokens))

----------------------------------------------------------------------------
(* The process *)

Snapshot ==
    [imem |-> instruction_memory, words |-> words, mode |-> compile_mode,
     comment |-> in_comment, ds |-> data_stack, cs |-> call_stack]

NoSnapshot ==
    [imem |-> <<>>, words |-> <<>>, mode |-> "", comment |-> FALSE,
     ds |-> <<>>, cs |-> <<>>]

\* VM::new and the locals of main before its loop
Init ==
    /\ data_stack = <<>>
    /\ call_stack = <<>>
    /\ instruction_memory = <<>>
    /\ instruction_pointer = 0
    /\ compile_mode = "TopLevel"
    /\ words = Builtins
    /\ in_comment = FALSE
    /\ ins_seq = <<>>
    /\ old_imem_len = 0
    /\ pc = "read"
    /\ token = ""
    /\ remaining = 0
    /\ ntokens = 0
    /\ status = <<"started">>
    /\ output = <<>>
    /\ at_run = NoSnapshot

\* clear that keeps what the line before left in the sequence
clear_keep(seq) == seq

\* Vec::clear
clear(seq) == <<>>

\* main: read_line and ins_seq.clear(), entering compile_line
ReadLineOf(budget) ==
    /\ pc = "read"
    /\ \E n \in 0 .. budget - ntokens : remaining' = n
    /\ token' = ""
    /\ ins_seq' = clear(ins_seq)
    /\ output' = <<>>
    /\ status' = <<>>
    /\ at_run' = NoSnapshot
    /\ pc' = "compile"
    /\ UNCHANGED <<data_stack, call_stack, instruction_memory, instruction_pointer,
                   compile_mode, words, in_comment, old_imem_len, ntokens>>

ReadLine == ReadLineOf(MaxTokens)

\* VM::compile_line: the next token of the line goes to compile_token; its
\* Err returns to main, which prints it and goes back to read_line
CompileTokenOf(T) ==
    /\ pc = "compile"
    /\ remaining > 0
    /\ \E tok \in T :
         LET c == compile_token(Compiler(compile_mode, words, in_comment,
                                         instruction_memory, ins_seq, <<>>), tok)
         IN /\ token' = tok
            /\ compile_mode' = c.compile_mode
            /\ words' = c.words
            /\ in_comment' = c.in_comment
            /\ instruction_memory' = c.instruction_memory
            /\ ins_seq' = c.ins_seq
            /\ IF returns_err(c.err)
               THEN /\ pc' = "read"
                    /\ status' = <<"Error">> \o c.err
               ELSE UNCHANGED <<pc, status>>
    /\ remaining' = remaining - 1
    /\ ntokens' = ntokens + 1
    /\ UNCHANGED <<data_stack, call_stack, instruction_pointer, old_imem_len,
                   output, at_run>>

CompileToken == CompileTokenOf(Tokens)

\* VM::run, entry: compile_line returned Ok; ins_seq is placed at the end of
\* instruction memory
RunBegin ==
    /\ pc = "compile"
    /\ remaining = 0
    /\ instruction_pointer' = Len(instruction_memory)
    /\ old_imem_len' = Len(instruction_memory)
    /\ instruction_memory' = instruction_memory \o ins_seq
    /\ at_run' = Snapshot
    /\ pc' = "run"
    /\ UNCHANGED <<data_stack, call_stack, compile_mode, words, in_comment, ins_seq,
                   token, remaining, ntokens, status, output>>

\* truncate that cuts the word bodies as well
truncate_all(imem, len) == <<>>

\* truncate that forgets to cut the transient region
truncate_keep(imem, len) == imem

\* Vec::truncate
truncate(imem, len) == IF len < Len(imem) THEN SubSeq(imem, 1, len) ELSE imem

\* VM::run, the loop's exit: the instruction pointer is at the end of
\* instruction memory; main prints " compiled" or " ok"
RunFinish ==
    /\ pc = "run"
    /\ instruction_pointer = Len(instruction_memory)
    /\ instruction_memory' = truncate(instruction_memory, old_imem_len)
    /\ status' = IF in_compile_mode(compile_mode) THEN <<"compiled">> ELSE <<"ok">>
    /\ pc' = "read"
    /\ UNCHANGED <<data_stack, call_stack, instruction_pointer, compile_mode, words,
                   in_comment, ins_seq, old_imem_len, token, remaining, ntokens,
                   output, at_run>>

\* VM::run, the fetch: get(instruction_pointer).unwrap() panics past the end
RunFetchPanic ==
    /\ pc = "run"
    /\ instruction_pointer > Len(instruction_memory)
    /\ pc' = "panic"
    /\ UNCHANGED <<data_stack, call_stack, instruction_memory, instruction_pointer,
                   compile_mode, words, in_comment, ins_seq, old_imem_len, token,
                   remaining, ntokens, status, output, at_run>>

\* VM::run, one turn of the loop: fetch, advance, exec_ins
RunStep ==
    /\ pc = "run"
    /\ instruction_pointer < Len(instruction_memory)
    /\ \E o \in exec_ins(instruction_memory[instruction_pointer + 1], data_stack,
                         call_stack, instruction_pointer + 1) :
         /\ Len(o.ds) <= MaxStack
         /\ Len(o.cs) <= MaxCall
         /\ Len(output \o o.out) <= MaxOut
         /\ data_stack' = o.ds
         /\ call_stack' = o.cs
         /\ instruction_pointer' = o.ip
         /\ output' = output \o o.out
         /\ CASE o.res = "ok" ->
                   UNCHANGED <<instruction_memory, pc, status>>
              [] o.res = "err" ->
                   /\ instruction_memory' = truncate(instruction_memory, old_imem_len)
                   /\ status' = <<"Error", "StackUnderflow">>
                   /\ pc' = "read"
              [] o.res = "panic" ->
                   /\ pc' = "panic"
                   /\ UNCHANGED <<instruction_memory, status>>
    /\ UNCHANGED <<compile_mode, words, in_comment, ins_seq, old_imem_len, token,
                   remaining, ntokens, at_run>>

Next ==
    \/ ReadLine
    \/ CompileToken
    \/ RunBegin
    \/ RunFinish
    \/ RunFetchPanic
    \/ RunStep

Spec == Init /\ [][Next]_vars

----------------------------------------------------------------------------
(* A session that starts with a definition line *)

\* The names given to the word: one that is free and one of a built-in
DefinedNames == {"W", "DUP"}

\* The built-in words that are not control words, and two numerals
SimpleTokens == {"DUP", "DROP", "SWAP", "+", "-", "*", "/", ".", "0", "2"}

\* The lines ": name body ;" with a body of at most two simple tokens
DefinitionLines ==
    { <<":", name>> \o body \o <<";">> :
        name \in DefinedNames,
        body \in {<<>>} \cup {<<a>> : a \in SimpleTokens}
                        \cup {<<a, b>> : a \in SimpleTokens, b \in SimpleTokens} }

\* The tokens of the lines that follow
CallTokens == {"W", "DUP", "0", "2", ";", ":"}

\* main after its first line, a definition line: compile_line has compiled
\* it, run has run the empty output sequence and main has printed " ok"
InitDefined ==
    \E l \in DefinitionLines :
        LET c == compile_line(Compiler("TopLevel", Builtins, FALSE, <<>>, <<>>, <<>>), l)
        IN /\ data_stack = <<>>
           /\ call_stack = <<>>
           /\ instruction_memory = c.instruction_memory
           /\ instruction_pointer = Len(c.instruction_memory)
           /\ compile_mode = c.compile_mode
           /\ words = c.words
           /\ in_comment = c.in_comment
           /\ ins_seq = c.ins_seq
           /\ old_imem_len = Len(c.instruction_memory)
           /\ pc = "read"
           /\ token = l[Len(l)]
           /\ remaining = 0
           /\ ntokens = 0
           /\ status = IF in_compile_mode(c.compile_mode) THEN <<"compiled">>
                       ELSE <<"ok">>
           /\ output = <<>>
           /\ at_run = [imem |-> c.instruction_memory, words |-> c.words,
                        mode |-> c.compile_mode, comment |-> c.in_comment,
                        ds |-> <<>>, cs |-> <<>>]

ReadCallLine == ReadLineOf(MaxCallTokens)

CompileCallToken == CompileTokenOf(CallTokens)

NextDefined ==
    \/ ReadCallLine
    \/ CompileCallToken
    \/ RunBegin
    \/ RunFinish
    \/ RunFetchPanic
    \/ RunStep

SpecDefined == InitDefined /\ [][NextDefined]_vars

----------------------------------------------------------------------------
(* One call of run, on any data stack *)

\* The instructions tokens compile to: the bodies of the built-in words and
\* the push of a literal
RunInstructions ==
    {Builtins[i].inline_iseq[1] : i \in 1 .. Len(Builtins)} \cup {IMM(0), IMM(3)}

\* The output sequences compile_line hands to run
RunSeqs ==
    UNION { [1 .. n -> RunInstructions] : n \in 0 .. MaxSeq }

\* The numbers on the data stack: small ones and the largest usize
RunValues == {0, 1, 2, 3, Modulus - 1}

\* The data stacks run is entered with: up to two operands, over nothing or
\* over one element
RunStacks ==
    { below \o top : below \in {<<>>, <<1>>},
                     top \in UNION { [1 .. n -> RunValues] : n \in 0 .. 2 } }

\* The call stacks run is entered with: empty, or holding the address a
\* failed call of an earlier line left
RunCallStacks == {<<>>, <<4>>}

\* main after the line ": W DUP * ;" and lines that left numbers on the data
\* stack: compile_line has returned Ok with the output sequence of the
\* current line and main is about to call run
InitRun ==
    /\ data_stack \in RunStacks
    /\ call_stack \in RunCallStacks
    /\ instruction_memory = <<Ins("DUP"), Ins("MUL"), Ins("RET")>>
    /\ instruction_pointer = 3
    /\ compile_mode = "TopLevel"
    /\ words = Append(Builtins, Word("W", <<IMM(0), Ins("CALL")>>))
    /\ in_comment = FALSE
    /\ ins_seq \in RunSeqs
    /\ old_imem_len = 3
    /\ pc = "compile"
    /\ token = ""
    /\ remaining = 0
    /\ ntokens = 0
    /\ status = <<>>
    /\ output = <<>>
    /\ at_run = NoSnapshot

NextRun ==
    \/ RunBegin
    \/ RunFinish
    \/ RunFetchPanic
    \/ RunStep

SpecRun == InitRun /\ [][NextRun]_vars

----------------------------------------------------------------------------
(* Properties *)

StackUnderflow == <<"Error", "StackUnderflow">>

\* run has returned to main, Ok or Err, and main has printed the status
RunReturned ==
    /\ pc = "read"
    /\ status \in {<<"ok">>, <<"compiled">>, StackUnderflow}

\* C1: when run(seq) returns, Ok or Err, instruction memory is what it was
\* immediately before the call, in length and in contents, and the
\* dictionary, the compile mode and the comment flag are what they were.
C1_RunRestoresMemory ==
    RunReturned =>
        /\ instruction_memory = at_run.imem
        /\ words = at_run.words
        /\ compile_mode = at_run.mode
        /\ in_comment = at_run.comment

\* a run of a non-empty sequence failed over a committed word body
C1_Witness ==
    /\ RunReturned
    /\ status = StackUnderflow
    /\ ins_seq # <<>>
    /\ at_run.imem # <<>>

\* compile_line has just handed token' to compile_token
CompileStep == pc = "compile" /\ ntokens' = ntokens + 1

\* the Err main prints for a token that failed to compile
InvalidTokenError(tok) == <<"Error", "InvalidToken", tok>>

CompileFailed == pc = "read" /\ Len(status) = 3

IsWord(tok) == \E i \in 1 .. Len(words) : words[i].name = tok

IsNumeral(tok) == tok \in DOMAIN Numerals

\* compile_token resolves tok: the comment check lets it through and the mode
\* is TopLevel (tok not ":") or DefinitionBody
Resolves(tok) ==
    /\ ~in_comment
    /\ tok # "("
    /\ \/ compile_mode = "TopLevel" /\ tok # ":"
       \/ compile_mode = "DefinitionBody"

CompilerUnchanged ==
    UNCHANGED <<ins_seq, instruction_memory, words, compile_mode, in_comment>>

\* C3, as claimed: after a token fails with InvalidToken, the tokens that
\* follow it on the line still compile, so compile_line is still at work
\* while tokens of the line are left.
C3_Original ==
    (Len(status) = 3 /\ remaining > 0) => pc = "compile"

\* C3, amended: a token that compile_token resolves and that is neither a
\* dictionary word nor a numeral fails with InvalidToken(token) and appends
\* nothing; compile_line returns there and the tokens after it on the line
\* are not compiled.
C3_InvalidTokenStops ==
    [][ /\ (CompileStep /\ Resolves(token') /\ ~IsWord(token') /\ ~IsNumeral(token'))
           => /\ status' = InvalidTokenError(token')
              /\ pc' = "read"
              /\ CompilerUnchanged
        /\ CompileFailed => ntokens' = ntokens /\ pc' = "compile" /\ ins_seq' = <<>>
      ]_vars

\* a token failed after another had been compiled, with tokens left on the line
C3_Witness ==
    /\ CompileFailed
    /\ status = InvalidTokenError("abc")
    /\ ins_seq # <<>>
    /\ remaining > 0

\* C4: compile_line returns the error at the first token compile_token fails
\* on and hands it no further token of the line; the failing token changes
\* nothing, and what the tokens before it did (output sequence, instruction
\* memory, dictionary, mode, comment flag) stays, also when main reads the
\* next line.
C4_FirstErrorReturns ==
    [][ /\ (CompileStep /\ status' # status)
           => /\ status' = InvalidTokenError(token')
              /\ pc' = "read"
              /\ CompilerUnchanged
        /\ pc = "read"
           => /\ ntokens' = ntokens
              /\ UNCHANGED <<instruction_memory, words, compile_mode, in_comment>>
      ]_vars

\* a token failed inside a definition body: the new entry and the mode stay
C4_Witness ==
    /\ CompileFailed
    /\ compile_mode = "DefinitionBody"
    /\ Len(words) > Len(Builtins)
    /\ remaining > 0

\* C5: no error is fatal to the process: whatever the line, main reports a
\* status and goes back to reading, so the process never ends in a panic.
C5_NoFatalError == pc # "panic"

BuiltinNames == <<"DUP", "DROP", "SWAP", "+", "-", "*", "/", "CALL", "JUMP", ";", ".">>

\* the index of the earliest entry of ws named name
FirstIndex(ws, name) ==
    CHOOSE i \in 1 .. Len(ws) :
        ws[i].name = name /\ \A j \in 1 .. i - 1 : ws[j].name # name

SimpleOps == {"DUP", "DROP", "SWAP", "ADD", "SUB", "MUL", "DIV", "PRINT", "IMM"}

\* the outcomes of executing the instructions of body one after the other on
\* the data stack ds, stopping at the first that does not return Ok
RECURSIVE Inline(_, _, _)
Inline(body, ds, out) ==
    IF body = <<>> THEN {[res |-> "ok", ds |-> ds, out |-> out]}
    ELSE UNION { IF o.res = "ok"
                 THEN Inline(Tail(body), o.ds, out \o o.out)
                 ELSE {[res |-> o.res, ds |-> o.ds, out |-> out]}
                 : o \in exec_ins(Head(body), ds, <<>>, 0) }

UserEntries == Len(Builtins) + 1 .. Len(words)

\* where the body of entry i ends: the returns at or after its address
BodyEnds(i) ==
    {k \in words[i].inline_iseq[1].n + 1 .. Len(at_run.imem) :
        at_run.imem[k].op = "RET"}

\* the instructions of the body of entry i, up to its return
WordBody(i) ==
    LET first == CHOOSE k \in BodyEnds(i) : \A j \in BodyEnds(i) : k <= j
    IN SubSeq(at_run.imem, words[i].inline_iseq[1].n + 1, first - 1)

\* entry i was defined by ": W body ;" with a body of built-in words that are
\* not control words and of literals
SimpleDefinition(i) ==
    /\ BodyEnds(i) # {}
    /\ \A k \in 1 .. Len(WordBody(i)) : WordBody(i)[k].op \in SimpleOps

\* the line was the top-level token that names entry i, it was compiled and
\* its run is over
RanToken(i) ==
    /\ pc \in {"read", "panic"}
    /\ at_run # NoSnapshot
    /\ at_run.mode = "TopLevel"
    /\ token = words[i].name
    /\ ins_seq # <<>>
    /\ ins_seq = token_to_instruction_seq(words, token).iseq

NoUnderflow(body, ds) == \A o \in Inline(body, ds, <<>>) : o.res # "err"

\* the run returned Ok with the stack and the output of outcome o and the
\* call stack as before
ReturnedAs(o) ==
    /\ o.res = "ok"
    /\ pc = "read"
    /\ status = <<"ok">>
    /\ data_stack = o.ds
    /\ output = o.out
    /\ call_stack = at_run.cs

LookupFirst ==
    /\ Len(words) >= Len(BuiltinNames)
    /\ \A i \in 1 .. Len(BuiltinNames) :
          words[i] = Word(BuiltinNames[i], Builtins[i].inline_iseq)
    /\ \A i \in 1 .. Len(words) :
          LET r == token_to_instruction_seq(words, words[i].name) IN
          r.ok /\ r.iseq = words[FirstIndex(words, words[i].name)].inline_iseq

\* C6: the dictionary is append-only with the eleven built-ins at its front,
\* and a name always resolves to the body of the earliest entry of that
\* name, so an entry that reuses a name is never reached.
C6_FirstMatchWins ==
    /\ LookupFirst
    /\ [][ /\ Len(words') >= Len(words)
           /\ SubSeq(words', 1, Len(words)) = words
           /\ words' # words => LookupFirst'
         ]_vars

\* a definition has reused the name of a built-in
C6_Witness ==
    \E i \in Len(BuiltinNames) + 1 .. Len(words) :
        /\ FirstIndex(words, words[i].name) < i
        /\ words[FirstIndex(words, words[i].name)].inline_iseq # words[i].inline_iseq

\* what the claim says of the token after ":"
DefinesWord(tok) ==
    /\ words' = Append(words, Word(tok, <<IMM(Len(instruction_memory)), Ins("CALL")>>))
    /\ compile_mode' = "DefinitionBody"
    /\ UNCHANGED <<instruction_memory, ins_seq, status, pc>>

\* C7, as claimed: in Definition mode the next token, whatever it is, "("
\* and ")" included, becomes a new entry [push-immediate(L), call] and the
\* mode becomes DefinitionBody.
C7_Original ==
    [][ (CompileStep /\ compile_mode = "Definition") => DefinesWord(token') ]_vars

\* C7, amended: in Definition mode with the comment flag clear the next
\* token other than "(" becomes the new entry, whatever it is; a "(" sets
\* the comment flag instead, and while the flag is set tokens are discarded:
\* in both cases no entry is made and the mode stays Definition.
C7_DefinitionTakesName ==
    [][ (CompileStep /\ compile_mode = "Definition")
        => IF ~in_comment /\ token' # "("
           THEN DefinesWord(token') /\ in_comment' = in_comment
           ELSE /\ in_comment' = (~in_comment \/ token' # ")")
                /\ UNCHANGED <<words, compile_mode, instruction_memory, ins_seq,
                               status, pc>>
      ]_vars

\* ")" has become the name of a dictionary entry
C7_Witness ==
    /\ compile_mode = "DefinitionBody"
    /\ token = ")"
    /\ words[Len(words)] = Word(")", <<IMM(0), Ins("CALL")>>)

\* C8: the mode starts at TopLevel and changes only by TopLevel -":"->
\* Definition, Definition -token-> DefinitionBody and DefinitionBody -";"->
\* TopLevel, each with the comment flag clear; ":" at top level and ";" in a
\* body always take their transition; main prints " compiled" exactly in
\* Definition and DefinitionBody.
C8_ModeMachine ==
    /\ compile_mode = "TopLevel"
    /\ [][ /\ compile_mode' # compile_mode
              => /\ CompileStep
                 /\ ~in_comment
                 /\ \/ compile_mode = "TopLevel" /\ token' = ":"
                                                 /\ compile_mode' = "Definition"
                    \/ compile_mode = "Definition" /\ compile_mode' = "DefinitionBody"
                    \/ compile_mode = "DefinitionBody" /\ token' = ";"
                                                       /\ compile_mode' = "TopLevel"
           /\ (CompileStep /\ ~in_comment /\ compile_mode = "TopLevel" /\ token' = ":")
              => compile_mode' = "Definition"
           /\ (CompileStep /\ ~in_comment /\ compile_mode = "DefinitionBody"
                           /\ token' = ";")
              => compile_mode' = "TopLevel"
           /\ (status' = <<"compiled">> /\ status # status')
              => compile_mode' \in {"Definition", "DefinitionBody"}
           /\ (status' = <<"ok">> /\ status # status')
              => compile_mode' = "TopLevel"
         ]_vars

\* a definition was opened, named and closed
C8_Witness ==
    /\ pc = "read"
    /\ status = <<"ok">>
    /\ token = ";"
    /\ Len(words) > Len(BuiltinNames)
    /\ instruction_memory # <<>>

\* C9: in every mode "(" with the flag clear sets the flag, ")" with the flag
\* set clears it, and a token met while the flag is set is discarded: no
\* error, and mode, dictionary, instruction memory and output sequence are
\* unchanged; nothing but these tokens changes the flag, so it persists
\* across lines.
C9_CommentsSkip ==
    [][ /\ (CompileStep /\ in_comment)
           => /\ in_comment' = (token' # ")")
              /\ UNCHANGED <<compile_mode, words, instruction_memory, ins_seq,
                             status, pc>>
        /\ (CompileStep /\ ~in_comment /\ token' = "(")
           => /\ in_comment'
              /\ UNCHANGED <<compile_mode, words, instruction_memory, ins_seq,
                             status, pc>>
        /\ (~CompileStep \/ (~in_comment /\ token' # "("))
           => in_comment' = in_comment
      ]_vars

\* a ";" was swallowed by a comment inside a definition body
C9_Witness ==
    /\ in_comment
    /\ token = ";"
    /\ compile_mode = "DefinitionBody"
    /\ pc = "compile"

DataPoppers ==
    {"DUP", "DROP", "SWAP", "ADD", "SUB", "MUL", "DIV", "CALL", "JUMP", "PRINT"}

\* the run loop is about to fetch and execute Fetched
ExecStep == pc = "run" /\ instruction_pointer < Len(instruction_memory)

Fetched == instruction_memory[instruction_pointer + 1]

\* C10: an instruction that pops the data stack, executed on an empty data
\* stack, and a return executed on an empty call stack, make run return
\* Err(StackUnderflow) with that stack still empty; nothing after the
\* failing instruction is executed.
C10_EmptyPopUnderflows ==
    [][ /\ (ExecStep /\ Fetched.op \in DataPoppers /\ data_stack = <<>>)
           => /\ status' = StackUnderflow
              /\ pc' = "read"
              /\ data_stack' = <<>>
              /\ output' = output
        /\ (ExecStep /\ Fetched.op = "RET" /\ call_stack = <<>>)
           => /\ status' = StackUnderflow
              /\ pc' = "read"
              /\ call_stack' = <<>>
              /\ data_stack' = data_stack
              /\ output' = output
      ]_vars

\* a call underflowed on an empty data stack
C10_Witness ==
    /\ pc = "read"
    /\ status = StackUnderflow
    /\ ins_seq = <<Ins("CALL")>>
    /\ data_stack = <<>>

ArithOps == {"ADD", "SUB", "MUL", "DIV"}

\* the mathematical result of a op b, over the integers
Exact(op, a, b) ==
    CASE op = "ADD" -> a + b
      [] op = "SUB" -> a - b
      [] op = "MUL" -> a * b
      [] op = "DIV" -> CHOOSE q \in 0 .. a : q * b <= a /\ a < (q + 1) * b

\* the data stack is S, a, b with a pushed before b
Below == SubSeq(data_stack, 1, Len(data_stack) - 2)

Left == data_stack[Len(data_stack) - 1]

Right == data_stack[Len(data_stack)]

\* C11: with a and b pushed in that order on a stack S, executing +, -, * or
\* / leaves S followed by a+b, a-b, a*b or floor(a/b), the first-pushed
\* operand on the left, whenever that result lies in [0, 2^w) and, for /, b
\* is not 0; the elements of S are unchanged and the run goes on.
C11_ArithmeticResult ==
    [][ (/\ ExecStep
         /\ Fetched.op \in ArithOps
         /\ Len(data_stack) >= 2
         /\ Fetched.op = "DIV" => Right # 0
         /\ Exact(Fetched.op, Left, Right) \in 0 .. Modulus - 1)
        => /\ data_stack' = Append(Below, Exact(Fetched.op, Left, Right))
           /\ pc' = "run"
      ]_vars

\* 3 and 2 were pushed in that order over a 1, and - has left 1 over the 1
C11_Witness ==
    /\ pc = "run"
    /\ at_run.ds = <<1, 3, 2>>
    /\ ins_seq = <<Ins("SUB")>>
    /\ instruction_pointer = 4
    /\ data_stack = <<1, 1>>

\* the run of the output sequence seq, entered with at least need elements
\* on the data stack, has returned
RanSeq(seq, need) ==
    /\ pc = "read"
    /\ at_run # NoSnapshot
    /\ ins_seq = seq
    /\ Len(at_run.ds) >= need

\* the run returned Ok with both stacks as they were when it was entered
StacksRestored ==
    /\ status = <<"ok">>
    /\ data_stack = at_run.ds
    /\ call_stack = at_run.cs

\* C12: on a data stack of at least one element DUP then DROP leaves the
\* data stack exactly as it was before the DUP, and on one of at least two
\* elements SWAP then SWAP leaves it exactly as before; neither changes the
\* call stack.
C12_StackRoundTrips ==
    /\ RanSeq(<<Ins("DUP"), Ins("DROP")>>, 1) => StacksRestored
    /\ RanSeq(<<Ins("SWAP"), Ins("SWAP")>>, 2) => StacksRestored

\* SWAP SWAP has run on 1, 3, 2 over a call stack that was not empty
C12_Witness ==
    /\ RanSeq(<<Ins("SWAP"), Ins("SWAP")>>, 2)
    /\ at_run.ds = <<1, 3, 2>>
    /\ at_run.cs = <<4>>
    /\ status = <<"ok">>

\* what executing ins can leave of the data stack ds, whatever the call
\* stack and the instruction pointer are
DataEffect(ins, ds) == {o.ds : o \in exec_ins(ins, ds, <<>>, 0)}

\* C13: an instruction other than call and return leaves the call stack
\* unchanged; return leaves the data stack unchanged; call changes the data
\* stack only by popping its top element and pushes onto the call stack only
\* the current instruction pointer (the address after the call); and the
\* data stack an instruction leaves is determined by the instruction and the
\* data stack before it, so no call-stack value gets onto the data stack.
C13_StacksSeparate ==
    [][ ExecStep =>
          /\ Fetched.op \notin {"CALL", "RET"} => call_stack' = call_stack
          /\ Fetched.op = "RET"
             => /\ data_stack' = data_stack
                /\ \/ call_stack' = call_stack /\ call_stack = <<>>
                   \/ /\ call_stack # <<>>
                      /\ call_stack = Append(call_stack', instruction_pointer')
          /\ Fetched.op = "CALL"
             => /\ call_stack' = Append(call_stack, instruction_pointer + 1)
                /\ \/ data_stack' = data_stack /\ data_stack = <<>>
                   \/ /\ data_stack # <<>>
                      /\ data_stack = Append(data_stack', instruction_pointer')
          /\ data_stack' \in DataEffect(Fetched, data_stack)
      ]_vars

\* a return has popped the address 4 off the call stack, over a data stack
\* that holds other numbers
C13_Witness ==
    /\ pc = "run"
    /\ at_run.cs = <<4>>
    /\ at_run.ds = <<1, 3, 2>>
    /\ ins_seq = <<Ins("RET")>>
    /\ call_stack = <<>>
    /\ instruction_pointer = 4
    /\ data_stack = <<1, 3, 2>>

\* seq contains no call, jump or return
StraightLine(seq) ==
    \A k \in 1 .. Len(seq) : seq[k].op \notin {"CALL", "JUMP", "RET"}

\* how many elements an instruction of straight-line code pops
Pops(op) ==
    CASE op \in {"DUP", "DROP", "PRINT"} -> 1
      [] op \in {"SWAP"} \cup ArithOps -> 2
      [] OTHER -> 0

Underflows == Len(data_stack) < Pops(Fetched.op)

DividesByZero == Fetched.op = "DIV" /\ Right = 0

\* run is executing a straight-line sequence
RunsStraight == pc = "run" /\ StraightLine(ins_seq)

\* the instruction pointer is inside the appended region or at its end, so
\* at most |seq| instructions have been executed
InAppended ==
    /\ Len(instruction_memory) = old_imem_len + Len(ins_seq)
    /\ instruction_pointer \in old_imem_len .. Len(instruction_memory)

\* the instruction about to execute is the next one of the sequence
InOrder == Fetched = ins_seq[instruction_pointer - old_imem_len + 1]

\* run has returned Err(StackUnderflow)
ReturnsUnderflow == pc = "read" /\ status = StackUnderflow

\* the instruction returns Ok and the loop goes on to the next one
GoesOn ==
    /\ pc' = "run"
    /\ instruction_pointer' = instruction_pointer + 1
    /\ status' = status

\* run returns Ok from the end of instruction memory
ReturnsOk == pc' = "read" /\ status' \in {<<"ok">>, <<"compiled">>}

\* C14: in a run of a sequence without call, jump and return
\* that divides by no zero, instructions are executed in sequence order from
\* the first appended address, at most |seq| of them; an instruction that
\* underflows makes run return Err(StackUnderflow) at once, every other one
\* is followed by the next, and run returns Ok exactly at the end of
\* instruction memory.
C14_StraightLineTerminates ==
    [][ RunsStraight =>
          /\ InAppended
          /\ IF ExecStep
             THEN /\ InOrder
                  /\ Underflows => ReturnsUnderflow'
                  /\ (~Underflows /\ ~DividesByZero) => GoesOn
             ELSE ReturnsOk
      ]_vars

\* the length of instruction memory without the transient region of a run
Committed ==
    IF pc \in {"run", "panic"} THEN old_imem_len ELSE Len(instruction_memory)

\* the address baked into user entry i
Address(i) == words[i].inline_iseq[1].n

\* every user entry is [push-immediate(A), call] with A inside the committed
\* memory; the bodies lie one after the other in dictionary order, each
\* closed by its return, and only the body of an open definition can still
\* be empty
BakedValid ==
    \A i \in UserEntries :
        /\ words[i].inline_iseq = <<IMM(Address(i)), Ins("CALL")>>
        /\ Address(i) <= Committed
        /\ Committed <= Len(instruction_memory)
        /\ i < Len(words)
           => /\ Address(i) < Address(i + 1)
              /\ instruction_memory[Address(i + 1)].op = "RET"
        /\ (i = Len(words) /\ compile_mode # "DefinitionBody")
           => /\ Address(i) < Committed
              /\ instruction_memory[Committed].op = "RET"

\* C15: every user entry [push-immediate(A), call] has A at most the length
\* of instruction memory; its body starts exactly at A, where the entry was
\* made, and grows only at the end of the committed memory while its
\* definition is open; no step moves, overwrites or truncates committed
\* instructions, and the transient code of a run lies above all of them.
C15_BakedAddressesValid ==
    /\ []BakedValid
    /\ [][ /\ Len(instruction_memory') >= Committed
           /\ SubSeq(instruction_memory', 1, Committed)
                = SubSeq(instruction_memory, 1, Committed)
           /\ Committed' >= Committed
           /\ Committed' # Committed
              => /\ CompileStep
                 /\ compile_mode = "DefinitionBody"
                 /\ instruction_memory' = instruction_memory
                        \o token_to_instruction_seq(words, token').iseq
           /\ words' # words
              => /\ words' = Append(words, Word(token',
                                 <<IMM(Len(instruction_memory)), Ins("CALL")>>))
                 /\ Committed' = Len(instruction_memory)
                 /\ compile_mode' = "DefinitionBody"
           /\ (pc = "compile" /\ pc' = "run")
              => /\ instruction_memory' = instruction_memory \o ins_seq
                 /\ Committed' = Len(instruction_memory)
         ]_vars

\* a second word was defined after a run had placed transient code behind
\* the body of the first and removed it
C15_Witness ==
    /\ Len(words) = Len(Builtins) + 2
    /\ compile_mode = "DefinitionBody"
    /\ data_stack # <<>>
    /\ instruction_memory # <<>>
    /\ Address(Len(words)) = Len(instruction_memory)

\* the instructions a token stands for: the body of the earliest entry of
\* that name, or the push of the numeral's value
Emitted(tok) ==
    IF IsWord(tok) THEN words[FirstIndex(words, tok)].inline_iseq
    ELSE <<IMM(Numerals[tok])>>

\* the token is compiled: it resolves and is a word or a numeral
Compiles(tok) == Resolves(tok) /\ (IsWord(tok) \/ IsNumeral(tok))

\* C16: a token compiled in TopLevel mode changes neither instruction memory
\* nor the dictionary, its instructions go to the output sequence; a token
\* compiled in DefinitionBody mode changes neither the output sequence nor
\* the dictionary, its instructions (the body of the resolved word, or one
\* push-immediate; the return for ";") are appended at the end of
\* instruction memory; a token compiled in Definition mode changes neither
\* instruction memory nor the output sequence.
C16_DestinationByMode ==
    [][ CompileStep =>
          /\ compile_mode = "TopLevel"
             => /\ UNCHANGED <<instruction_memory, words>>
                /\ ins_seq' = IF Compiles(token') THEN ins_seq \o Emitted(token')
                               ELSE ins_seq
          /\ compile_mode = "DefinitionBody"
             => /\ UNCHANGED <<ins_seq, words>>
                /\ instruction_memory' =
                      IF Compiles(token') THEN instruction_memory \o Emitted(token')
                      ELSE instruction_memory
                /\ (Compiles(token') /\ token' = ";")
                   => instruction_memory' = Append(instruction_memory, Ins("RET"))
          /\ compile_mode = "Definition"
             => UNCHANGED <<instruction_memory, ins_seq>>
      ]_vars

\* on the line "2 : W DUP" the 2 went to the output sequence and the DUP to
\* instruction memory
C16_Witness ==
    /\ pc = "compile"
    /\ compile_mode = "DefinitionBody"
    /\ token = "DUP"
    /\ ins_seq = <<IMM(2)>>
    /\ instruction_memory = <<Ins("DUP")>>
    /\ words[Len(words)].name = "W"

\* C17: when compile_line returns an error main does not call run for that
\* line: the data stack, the call stack and the printed output are as they
\* were before the line, also when top-level tokens before the bad one had
\* been compiled into the output sequence; that sequence is discarded
\* before the next line, while the dictionary, instruction memory, the mode
\* and the comment flag stay as the tokens before the bad one left them.
C17_FailedLineRunsNothing ==
    /\ [](CompileFailed => (at_run = NoSnapshot /\ output = <<>>))
    /\ [][ /\ pc \in {"read", "compile"} => UNCHANGED <<data_stack, call_stack>>
           /\ pc = "compile" => output' = output
           /\ pc' = "run" => (pc = "run" \/ (pc = "compile" /\ status = <<>>))
           /\ CompileFailed'
              => /\ pc = "compile"
                 /\ status' = InvalidTokenError(token')
                 /\ CompilerUnchanged
           /\ CompileFailed
              => /\ pc' = "compile"
                 /\ ins_seq' = <<>>
                 /\ UNCHANGED <<words, instruction_memory, compile_mode, in_comment>>
         ]_vars

\* after a line that left 2 on the data stack, the line "0 abc" failed with
\* the 0 already compiled into the output sequence
C17_Witness ==
    /\ CompileFailed
    /\ token = "abc"
    /\ ins_seq = <<IMM(0)>>
    /\ data_stack = <<2>>

\* the loop of run is about to fetch: the instruction pointer is not at the
\* end of instruction memory
Fetches == pc = "run" /\ instruction_pointer # Len(instruction_memory)

\* C18: whenever the loop of run fetches an instruction, the instruction
\* pointer is strictly less than the length of instruction memory, also
\* after a jump, call or return took its target from a stack.
C18_FetchInBounds ==
    Fetches => instruction_pointer < Len(instruction_memory)

TwoOperandOps == {"SWAP"} \cup ArithOps

\* C19, as claimed: after an instruction that fails with StackUnderflow the
\* data stack and the call stack are what they were immediately before it.
C19_Original ==
    [][ (ExecStep /\ ReturnsUnderflow')
        => UNCHANGED <<data_stack, call_stack>>
      ]_vars

\* C19, amended: an instruction that fails with StackUnderflow keeps what it
\* did before the pop that failed and does nothing after it: a two-operand
\* word (SWAP, +, -, *, /) executed with exactly one element on the data
\* stack consumes that element, a call executed with an empty data stack
\* leaves the return address on the call stack, and every other failing
\* instruction leaves both stacks as they were; nothing is printed.
C19_UnderflowEffect ==
    [][ (ExecStep /\ ReturnsUnderflow')
        => /\ output' = output
           /\ CASE Fetched.op \in TwoOperandOps /\ Len(data_stack) = 1 ->
                     data_stack' = <<>> /\ call_stack' = call_stack
                [] Fetched.op = "CALL" ->
                     /\ data_stack = <<>>
                     /\ data_stack' = <<>>
                     /\ call_stack' = Append(call_stack, instruction_pointer + 1)
                [] OTHER -> UNCHANGED <<data_stack, call_stack>>
      ]_vars

\* a call on an empty data stack failed and left its return address
C19_Witness ==
    /\ pc = "read"
    /\ status = StackUnderflow
    /\ ins_seq = <<Ins("CALL")>>
    /\ at_run.ds = <<>>
    /\ at_run.cs = <<>>
    /\ call_stack = <<4>>

\* main is at the start of a line: about to read it, or compiling it
LineStart == pc \in {"read", "compile"}

\* C20: at the start of every line, whatever the lines before it ended in,
\* the call stack is empty, so no return address of an earlier line is left
\* for a later run to pop.
C20_CallStackEmptyAtLineStart ==
    LineStart => call_stack = <<>>

====
